---- MODULE Spec2Model ----
(***************************************************************************)
(* Text-Formatter (main.go): the airport directory loader, the two token   *)
(* rewriters (plain and highlighted) and the whitespace normaliser.        *)
(*                                                                         *)
(* A string is a sequence of characters; a character is a one-symbol       *)
(* string, the control characters being written "LF", "CR", "VT", "FF",    *)
(* "TAB", "ESC" and the backslash "BSL".                                    *)
(***************************************************************************)
EXTENDS Integers, Sequences, FiniteSets, TLC

VARIABLES
    pc,                 \* main's position: start, loaded, plain, done, exit
    header,             \* the CSV header record (reader.Read)
    rows,               \* the CSV data records, as written in the file
    input,              \* the input file's text
    airportMap,         \* the global map: [made, m], m: code -> *Airport
    heap,               \* the Airport values allocated, by address 1..Len
    loadErr,            \* loadAirportData's result: "nil" or the error
    plainOutput,        \* main's plainOutput
    highlightedOutput   \* main's highlightedOutput

vars == <<pc, header, rows, input, airportMap, heap, loadErr, plainOutput, highlightedOutput>>

----------------------------------------------------------------------------
(* Bounds of the model. *)

MaxRows == 2

MaxPieces == 2

MaxWs == 4

MaxPad == 1

----------------------------------------------------------------------------
(* Characters and the Go library functions over strings. *)

UpperLetters == <<"A","B","C","D","E","F","G","H","I","J","K","L","M",
                  "N","O","P","Q","R","S","T","U","V","W","X","Y","Z">>

LowerLetters == <<"a","b","c","d","e","f","g","h","i","j","k","l","m",
                  "n","o","p","q","r","s","t","u","v","w","x","y","z">>

Digits == <<"0","1","2","3","4","5","6","7","8","9">>

UpperSet == {UpperLetters[i] : i \in 1..26}

DigitSet == {Digits[i] : i \in 1..10}

\* unicode.IsSpace over the characters of the model
IsSpace(c) == c \in {" ", "TAB", "LF", "VT", "FF", "CR"}

\* strings.ToLower
ToLowerChar(c) ==
    IF c \in UpperSet
    THEN LowerLetters[CHOOSE i \in 1..26 : UpperLetters[i] = c]
    ELSE c

ToLower(s) == [i \in 1..Len(s) |-> ToLowerChar(s[i])] \o <<>>

\* the value of e, computed once: the one element of {e}
\* (written out where it is used as  CHOOSE r \in {F(v) : v \in {e}} : TRUE)

\* strings.TrimSpace: what lies between the first and the last non-space
trimValue(v) ==
    LET keep == {i \in 1..Len(v) : ~IsSpace(v[i])}
    IN  IF keep = {} THEN <<>>
        ELSE SubSeq(v, CHOOSE i \in keep : \A j \in keep : i <= j,
                       CHOOSE i \in keep : \A j \in keep : j <= i)

TrimSpace(s) == CHOOSE r \in {trimValue(v) : v \in {s}} : TRUE

\* the number of consecutive characters of set cls from s[i] on
runLen(s, i, cls) ==
    (CHOOSE k \in i..(Len(s) + 1) :
        /\ (k = Len(s) + 1 \/ s[k] \notin cls)
        /\ \A j \in i..(k - 1) : s[j] \in cls) - i

\* strings.Split(s, "\n"): the lines of s, at least one
splitValue(v) ==
    LET f[i \in 1..(Len(v) + 1)] ==
            IF i > Len(v) THEN << <<>> >>
            ELSE IF v[i] = "LF" THEN << <<>> >> \o f[i + 1]
            ELSE CHOOSE r \in {<< <<v[i]>> \o rest[1] >> \o Tail(rest) : rest \in {f[i + 1]}} : TRUE
    IN  f[1]

Split(s) == CHOOSE r \in {splitValue(v) : v \in {s}} : TRUE

\* strings.Fields: the maximal runs of non-space characters
fieldsValue(v) ==
    LET NonSpace == {v[k] : k \in 1..Len(v)} \ {" ", "TAB", "LF", "VT", "FF", "CR"}
        f[i \in 1..(Len(v) + 1)] ==
            IF i > Len(v) THEN <<>>
            ELSE IF IsSpace(v[i]) THEN f[i + 1]
            ELSE CHOOSE r \in {<<SubSeq(v, i, i + n - 1)>> \o f[i + n] :
                                n \in {runLen(v, i, NonSpace)}} : TRUE
    IN  f[1]

Fields(s) == CHOOSE r \in {fieldsValue(v) : v \in {s}} : TRUE

\* strings.Join(parts, sep)
joinValue(v, sep) ==
    LET f[i \in 1..(Len(v) + 1)] ==
            IF i > Len(v) THEN <<>>
            ELSE IF i = Len(v) THEN v[i]
            ELSE v[i] \o sep \o f[i + 1]
    IN  f[1]

Join(parts, sep) == CHOOSE r \in {joinValue(v, sep) : v \in {parts}} : TRUE

\* strings.Contains
Contains(s, sub) ==
    \E i \in 1..(Len(s) - Len(sub) + 1) : SubSeq(s, i, i + Len(sub) - 1) = sub

----------------------------------------------------------------------------
(* ANSI escape codes (main.go, const block). *)

ColorReset == <<"ESC", "[", "0", "m">>

ColorGreen == <<"ESC", "[", "3", "2", "m">>

ColorYellow == <<"ESC", "[", "3", "3", "m">>

ColorMagenta == <<"ESC", "[", "3", "5", "m">>

ColorCyan == <<"ESC", "[", "3", "6", "m">>

----------------------------------------------------------------------------
(* loadAirportData. *)

requiredColumns ==
    << <<"n","a","m","e">>,
       <<"i","s","o","_","c","o","u","n","t","r","y">>,
       <<"m","u","n","i","c","i","p","a","l","i","t","y">>,
       <<"i","c","a","o","_","c","o","d","e">>,
       <<"i","a","t","a","_","c","o","d","e">>,
       <<"c","o","o","r","d","i","n","a","t","e","s">> >>

ColName == requiredColumns[1]

ColCountry == requiredColumns[2]

ColMunicipality == requiredColumns[3]

ColIcao == requiredColumns[4]

ColIata == requiredColumns[5]

ColCoordinates == requiredColumns[6]

\* columnMap: key -> index, a later column of the same key replacing an earlier
headerKey(column) == TrimSpace(ToLower(column))

columnMapOf(keys) ==
    [k \in {keys[i] : i \in 1..Len(keys)} |->
        CHOOSE i \in 1..Len(keys) :
            /\ keys[i] = k
            /\ \A j \in 1..Len(keys) : keys[j] = k => j <= i]

columnMap(hdr) ==
    CHOOSE r \in {columnMapOf(keys) :
                  keys \in {[i \in 1..Len(hdr) |-> headerKey(hdr[i])] \o <<>>}} : TRUE

\* for _, req := range requiredColumns { if _, exists := columnMap[req]; !exists
missingColumn(cm) ==
    \E r \in 1..Len(requiredColumns) : requiredColumns[r] \notin DOMAIN cm

\* csv.Reader.ReadAll with FieldsPerRecord = 0: every record must have the
\* header's number of fields, or the read fails as a whole
ReadAll(hdr, recs) ==
    IF \E i \in 1..Len(recs) : Len(recs[i]) # Len(hdr)
    THEN [err |-> "wrong number of fields", records |-> <<>>]
    ELSE [err |-> "nil", records |-> recs]

NilMap == [made |-> FALSE, m |-> <<>>]

MakeMap == [made |-> TRUE, m |-> <<>>]

mapSet(am, code, p) ==
    [made |-> TRUE,
     m |-> [k \in (DOMAIN am.m) \cup {code} |-> IF k = code THEN p ELSE am.m[k]]]

\* loadRecord with a bug: each code gets an Airport value of its own
loadRecord_copyPerCode(st, cm, n, record) ==
    LET name == record[cm[ColName]]
        iataCode == record[cm[ColIata]]
        icaoCode == record[cm[ColIcao]]
        airport == [Name |-> name,
                    ISOCountry |-> record[cm[ColCountry]],
                    Municipality |-> record[cm[ColMunicipality]],
                    ICAOCode |-> icaoCode,
                    IATACode |-> iataCode,
                    Coordinates |-> record[cm[ColCoordinates]]]
        p == Len(st.hp) + 1
        am1 == IF iataCode # <<>> THEN mapSet(st.am, iataCode, p) ELSE st.am
        am2 == IF icaoCode # <<>> THEN mapSet(am1, icaoCode, p + 1) ELSE am1
    IN  IF Len(record) # n
        THEN [st EXCEPT !.err = "malformed record"]
        ELSE IF TrimSpace(name) = <<>>
             THEN [st EXCEPT !.err = "empty name in record"]
        ELSE IF TrimSpace(iataCode) = <<>> /\ TrimSpace(icaoCode) = <<>>
             THEN [st EXCEPT !.err = "record has no IATA or ICAO code"]
        ELSE [am |-> am2, hp |-> st.hp \o <<airport, airport>>, err |-> "nil"]

\* one iteration of the loop over records: st = [am, hp, err], cm the
\* columnMap, n = len(header)
loadRecord(st, cm, n, record) ==
    LET name == record[cm[ColName]]
        iataCode == record[cm[ColIata]]
        icaoCode == record[cm[ColIcao]]
        airport == [Name |-> name,
                    ISOCountry |-> record[cm[ColCountry]],
                    Municipality |-> record[cm[ColMunicipality]],
                    ICAOCode |-> icaoCode,
                    IATACode |-> iataCode,
                    Coordinates |-> record[cm[ColCoordinates]]]
        p == Len(st.hp) + 1
        am1 == IF iataCode # <<>> THEN mapSet(st.am, iataCode, p) ELSE st.am
        am2 == IF icaoCode # <<>> THEN mapSet(am1, icaoCode, p) ELSE am1
    IN  IF Len(record) = 0 THEN st
        ELSE IF Len(record) # n
             THEN [st EXCEPT !.err = "malformed record"]
        ELSE IF TrimSpace(name) = <<>>
             THEN [st EXCEPT !.err = "empty name in record"]
        ELSE IF TrimSpace(iataCode) = <<>> /\ TrimSpace(icaoCode) = <<>>
             THEN [st EXCEPT !.err = "record has no IATA or ICAO code"]
        ELSE [am |-> am2, hp |-> Append(st.hp, airport), err |-> "nil"]

\* for _, record := range records { ... }: the state after the first i records
loadRecords(st0, cm, n, records) ==
    LET f[i \in 0..Len(records)] ==
            IF i = 0 THEN st0
            ELSE CHOOSE r \in {IF st.err # "nil" THEN st
                               ELSE loadRecord(st, cm, n, records[i]) : st \in {f[i - 1]}} : TRUE
    IN  f[Len(records)]

\* loadAirportData with a bug: the map is made before the header is checked
loadWith_makeFirst(am0, hp0, cm, hdr, recs) ==
    IF missingColumn(cm)
    THEN [am |-> MakeMap, hp |-> hp0, err |-> "missing required column"]
    ELSE LET read == ReadAll(hdr, recs)
         IN  IF read.err # "nil"
             THEN [am |-> MakeMap, hp |-> hp0, err |-> read.err]
             ELSE loadRecords([am |-> MakeMap, hp |-> hp0, err |-> "nil"],
                              cm, Len(hdr), read.records)

\* the function after columnMap is built: the check of the required columns,
\* airportMap = make(...), ReadAll, the loop
loadWith(am0, hp0, cm, hdr, recs) ==
    IF missingColumn(cm)
    THEN [am |-> am0, hp |-> hp0, err |-> "missing required column"]
    ELSE LET read == ReadAll(hdr, recs)
         IN  IF read.err # "nil"
             THEN [am |-> MakeMap, hp |-> hp0, err |-> read.err]
             ELSE loadRecords([am |-> MakeMap, hp |-> hp0, err |-> "nil"],
                              cm, Len(hdr), read.records)

\* the whole function: the global map, the heap and the error it returns
loadAirportData(am0, hp0, hdr, recs) ==
    CHOOSE r \in {loadWith(am0, hp0, cm, hdr, recs) : cm \in {columnMap(hdr)}} : TRUE

\* airport, exists := airportMap[code]
exists(code) == code \in DOMAIN airportMap.m

lookup(code) == heap[airportMap.m[code]]

----------------------------------------------------------------------------
(* regexp: the patterns of main.go, matched leftmost-first at a position.  *)
(* Each gives the length of the match starting at s[i], 0 when none.       *)

lettersAt(s, i, n) ==
    /\ i + n - 1 <= Len(s)
    /\ \A k \in i..(i + n - 1) : s[k] \in UpperSet

\* (\*?)#([A-Z]{3})
iataRegex(s, i) ==
    IF s[i] = "*" /\ i + 1 <= Len(s) /\ s[i + 1] = "#" /\ lettersAt(s, i + 2, 3) THEN 5
    ELSE IF s[i] = "#" /\ lettersAt(s, i + 1, 3) THEN 4
    ELSE 0

\* (\*?)##([A-Z]{4})
icaoRegex(s, i) ==
    IF /\ s[i] = "*" /\ i + 2 <= Len(s) /\ s[i + 1] = "#" /\ s[i + 2] = "#"
       /\ lettersAt(s, i + 3, 4) THEN 7
    ELSE IF s[i] = "#" /\ i + 1 <= Len(s) /\ s[i + 1] = "#" /\ lettersAt(s, i + 2, 4) THEN 6
    ELSE 0

\* [0-9T:.Z+-]
TsClass == DigitSet \cup {"T", ":", ".", "Z", "+", "-"}

\* the literal prefix pre at s[i]
literalAt(s, i, pre) ==
    /\ i + Len(pre) - 1 <= Len(s)
    /\ SubSeq(s, i, i + Len(pre) - 1) = pre

\* <pre>([0-9T:.Z+-]{16,})\)  for pre = D\(  T12\(  T24\(
stampRegex(pre, s, i) ==
    IF ~literalAt(s, i, pre) THEN 0
    ELSE LET n == runLen(s, i + Len(pre), TsClass)
             close == i + Len(pre) + n
         IN  IF n >= 16 /\ close <= Len(s) /\ s[close] = ")"
             THEN Len(pre) + n + 1 ELSE 0

dateRegex(s, i) == stampRegex(<<"D", "(">>, s, i)

time12Regex(s, i) == stampRegex(<<"T", "1", "2", "(">>, s, i)

time24Regex(s, i) == stampRegex(<<"T", "2", "4", "(">>, s, i)

\* \\[rvf]
escapeRegex(s, i) ==
    IF s[i] = "BSL" /\ i + 1 <= Len(s) /\ s[i + 1] \in {"r", "v", "f"} THEN 2 ELSE 0

\* [\r\v\f]+
controlRegex(s, i) == runLen(s, i, {"CR", "VT", "FF"})

\* newlinesRegex with a bug: \n{3}, three newlines at a time
newlinesRegex_exactlyThree(s, i) ==
    LET n == runLen(s, i, {"LF"}) IN IF n >= 3 THEN 3 ELSE 0

\* \n{3,}
newlinesRegex(s, i) ==
    LET n == runLen(s, i, {"LF"}) IN IF n >= 3 THEN n ELSE 0

matchLen(re, s, i) ==
    CASE re = "iata" -> iataRegex(s, i)
      [] re = "icao" -> icaoRegex(s, i)
      [] re = "date" -> dateRegex(s, i)
      [] re = "time12" -> time12Regex(s, i)
      [] re = "time24" -> time24Regex(s, i)
      [] re = "escape" -> escapeRegex(s, i)
      [] re = "control" -> controlRegex(s, i)
      [] re = "newlines" -> newlinesRegex(s, i)

----------------------------------------------------------------------------
(* The airport renderers. *)

plainAirport(airport) == airport.Name

\* plainCity with a bug: the municipality is tested without being trimmed
plainCity_untrimmed(airport) ==
    IF airport.Municipality # <<>>
    THEN airport.Municipality
    ELSE plainAirport(airport)

plainCity(airport) ==
    IF TrimSpace(airport.Municipality) # <<>>
    THEN airport.Municipality
    ELSE plainAirport(airport)

highlightAirport(airport) == ColorGreen \o airport.Name \o ColorReset

highlightCity(airport) ==
    IF TrimSpace(airport.Municipality) # <<>>
    THEN ColorCyan \o airport.Municipality \o ColorReset
    ELSE ColorGreen \o airport.Name \o ColorReset

\* the callback of the IATA and ICAO passes: groups[1] is the star, groups[2]
\* the code, the last n characters of the match
airportCallback(mode, n, match) ==
    LET star == Len(match) - n - (IF n = 3 THEN 1 ELSE 2)
        code == SubSeq(match, Len(match) - n + 1, Len(match))
    IN  IF exists(code)
        THEN IF star = 1
             THEN (IF mode = "plain" THEN plainCity(lookup(code))
                   ELSE highlightCity(lookup(code)))
             ELSE (IF mode = "plain" THEN plainAirport(lookup(code))
                   ELSE highlightAirport(lookup(code)))
        ELSE match

----------------------------------------------------------------------------
(* time.Parse and Time.Format (Go 1.23), for the two layouts of main.go.   *)

digitVal(c) == CHOOSE n \in 0..9 : Digits[n + 1] = c

isDigit(s, i) == i <= Len(s) /\ s[i] \in DigitSet

\* getnum(s[i:], fixed): one or two leading digits and the index after them;
\* n = -1 is the error
getnum(s, i, fixed) ==
    IF ~isDigit(s, i) THEN [n |-> -1, next |-> i]
    ELSE IF ~isDigit(s, i + 1)
         THEN (IF fixed THEN [n |-> -1, next |-> i]
               ELSE [n |-> digitVal(s[i]), next |-> i + 1])
         ELSE [n |-> digitVal(s[i]) * 10 + digitVal(s[i + 1]), next |-> i + 2]

\* the literal character c of the layout at s[i]
skipChar(s, i, c) == i <= Len(s) /\ s[i] = c

isLeap(year) == year % 4 = 0 /\ (year % 100 # 0 \/ year % 400 = 0)

daysIn(month, year) ==
    IF month = 2 THEN (IF isLeap(year) THEN 29 ELSE 28)
    ELSE IF month \in {4, 6, 9, 11} THEN 30 ELSE 31

BadTime == [ok |-> FALSE, year |-> 0, month |-> 0, day |-> 0, hour |-> 0, min |-> 0,
            offset |-> 0]

\* stampValue with a bug: the day is not checked against the month
stampValue_anyDay(v) ==
    LET bad == [ok |-> FALSE, year |-> 0, month |-> 0, day |-> 0, hour |-> 0,
                min |-> 0, next |-> 0]
        year == digitVal(v[1]) * 1000 + digitVal(v[2]) * 100
                + digitVal(v[3]) * 10 + digitVal(v[4])
        mo == getnum(v, 6, TRUE)
        da == getnum(v, 9, TRUE)
        ho == getnum(v, 12, FALSE)
        mi == getnum(v, ho.next + 1, TRUE)
    IN  IF ~(Len(v) >= 4 /\ \A k \in 1..4 : isDigit(v, k)) THEN bad
        ELSE IF ~skipChar(v, 5, "-") THEN bad
        ELSE IF mo.n < 1 \/ mo.n > 12 \/ ~skipChar(v, 8, "-") THEN bad
        ELSE IF da.n < 0 \/ ~skipChar(v, 11, "T") THEN bad
        ELSE IF ho.n < 0 \/ ho.n >= 24 \/ ~skipChar(v, ho.next, ":") THEN bad
        ELSE IF mi.n < 0 \/ mi.n >= 60 THEN bad
        ELSE [ok |-> TRUE, year |-> year, month |-> mo.n, day |-> da.n,
              hour |-> ho.n, min |-> mi.n, next |-> mi.next]

\* the common prefix "2006-01-02T15:04" of both layouts, read from value[1]:
\* the fields and the index after them, ok = FALSE on a syntax or range error.
\* The year is four digits, month, day and minute two, the hour one or two.
stampValue(v) ==
    LET bad == [ok |-> FALSE, year |-> 0, month |-> 0, day |-> 0, hour |-> 0,
                min |-> 0, next |-> 0]
        year == digitVal(v[1]) * 1000 + digitVal(v[2]) * 100
                + digitVal(v[3]) * 10 + digitVal(v[4])
        mo == getnum(v, 6, TRUE)
        da == getnum(v, 9, TRUE)
        ho == getnum(v, 12, FALSE)
        mi == getnum(v, ho.next + 1, TRUE)
    IN  IF ~(Len(v) >= 4 /\ \A k \in 1..4 : isDigit(v, k)) THEN bad
        ELSE IF ~skipChar(v, 5, "-") THEN bad
        ELSE IF mo.n < 1 \/ mo.n > 12 \/ ~skipChar(v, 8, "-") THEN bad
        ELSE IF da.n < 0 \/ ~skipChar(v, 11, "T") THEN bad
        ELSE IF ho.n < 0 \/ ho.n >= 24 \/ ~skipChar(v, ho.next, ":") THEN bad
        ELSE IF mi.n < 0 \/ mi.n >= 60 THEN bad
        ELSE IF da.n < 1 \/ da.n > daysIn(mo.n, year) THEN bad
        ELSE [ok |-> TRUE, year |-> year, month |-> mo.n, day |-> da.n,
              hour |-> ho.n, min |-> mi.n, next |-> mi.next]

parseStamp(value) == CHOOSE r \in {stampValue(v) : v \in {value}} : TRUE

\* time.Parse("2006-01-02T15:04Z", value): the Z is a literal, the time is UTC
layoutZValue(v, p) ==
    IF p.ok /\ p.next = Len(v) /\ v[p.next] = "Z"
    THEN [ok |-> TRUE, year |-> p.year, month |-> p.month, day |-> p.day,
          hour |-> p.hour, min |-> p.min, offset |-> 0]
    ELSE BadTime

parseLayoutZ(value) ==
    CHOOSE r \in {layoutZValue(v, p) : v \in {value}, p \in {parseStamp(value)}} : TRUE

\* layoutOffsetValue with a bug: the time is converted to UTC (within its day)
layoutOffsetValue_toUTC(v, p) ==
    LET z == p.next
        hr == getnum(v, z + 1, TRUE)
        mm == getnum(v, z + 4, TRUE)
        off == IF v[z] = "-" THEN -(hr.n * 60 + mm.n) ELSE hr.n * 60 + mm.n
        utc == (p.hour * 60 + p.min - off) % 1440
    IN  IF ~p.ok \/ Len(v) # z + 5 \/ v[z + 3] # ":" \/ v[z] \notin {"+", "-"} THEN BadTime
        ELSE IF hr.n < 0 \/ mm.n < 0 \/ hr.n > 24 \/ mm.n > 60 THEN BadTime
        ELSE [ok |-> TRUE, year |-> p.year, month |-> p.month, day |-> p.day,
              hour |-> utc \div 60, min |-> utc % 60, offset |-> 0]

\* time.Parse("2006-01-02T15:04-07:00", value): sign, two digits, colon, two
\* digits and nothing more; the offset, in minutes, names the zone of the
\* time, whose clock reading is the one written
layoutOffsetValue(v, p) ==
    LET z == p.next
        hr == getnum(v, z + 1, TRUE)
        mm == getnum(v, z + 4, TRUE)
    IN  IF ~p.ok \/ Len(v) # z + 5 \/ v[z + 3] # ":" \/ v[z] \notin {"+", "-"} THEN BadTime
        ELSE IF hr.n < 0 \/ mm.n < 0 \/ hr.n > 24 \/ mm.n > 60 THEN BadTime
        ELSE [ok |-> TRUE, year |-> p.year, month |-> p.month, day |-> p.day,
              hour |-> p.hour, min |-> p.min,
              offset |-> IF v[z] = "-" THEN -(hr.n * 60 + mm.n)
                         ELSE hr.n * 60 + mm.n]

parseLayoutOffset(value) ==
    CHOOSE r \in {layoutOffsetValue(v, p) : v \in {value}, p \in {parseStamp(value)}} : TRUE

\* t, err := time.Parse(layout Z); if err != nil { t, err = time.Parse(layout offset) }
parseTime(value) ==
    CHOOSE r \in {IF t.ok THEN t ELSE parseLayoutOffset(value) :
                  t \in {parseLayoutZ(value)}} : TRUE

pad2(n) == <<Digits[((n \div 10) % 10) + 1], Digits[(n % 10) + 1]>>

pad4(n) == pad2(n \div 100) \o pad2(n % 100)

MonthNames ==
    << <<"J","a","n">>, <<"F","e","b">>, <<"M","a","r">>, <<"A","p","r">>,
       <<"M","a","y">>, <<"J","u","n">>, <<"J","u","l">>, <<"A","u","g">>,
       <<"S","e","p">>, <<"O","c","t">>, <<"N","o","v">>, <<"D","e","c">> >>

\* t.Format("02 Jan 2006")
formatDate(t) == pad2(t.day) \o <<" ">> \o MonthNames[t.month] \o <<" ">> \o pad4(t.year)

\* t.Format("03:04PM")
format12(t) ==
    LET h == IF t.hour % 12 = 0 THEN 12 ELSE t.hour % 12
    IN  pad2(h) \o <<":">> \o pad2(t.min)
        \o (IF t.hour >= 12 THEN <<"P", "M">> ELSE <<"A", "M">>)

\* t.Format("15:04")
format24(t) == pad2(t.hour) \o <<":">> \o pad2(t.min)

\* t.Format("-07:00"): the sign, then the absolute offset in hours and minutes
formatZone(t) ==
    LET zone == IF t.offset < 0 THEN -t.offset ELSE t.offset
    IN  (IF t.offset < 0 THEN <<"-">> ELSE <<"+">>)
        \o pad2(zone \div 60) \o <<":">> \o pad2(zone % 60)

\* zone := t.Format("-07:00"); if zone == "Z" {...} else { "(" + zone + ")" }
zoneText(t) ==
    LET zone == formatZone(t)
    IN  IF zone = <<"Z">> THEN <<"(", "+", "0", "0", ":", "0", "0", ")">>
        ELSE <<"(">> \o zone \o <<")">>

\* the callbacks of the date and time passes, the timestamp being the match
\* without its prefix (D( or T12( or T24() and its closing parenthesis
dateRender(mode, match, t) ==
    IF ~t.ok THEN match
    ELSE IF mode = "plain" THEN formatDate(t)
    ELSE ColorMagenta \o formatDate(t) \o ColorReset

dateCallback(mode, match) ==
    CHOOSE r \in {dateRender(mode, match, t) :
                  t \in {parseTime(SubSeq(match, 3, Len(match) - 1))}} : TRUE

time12Render(mode, match, t) ==
    IF ~t.ok THEN match
    ELSE IF mode = "plain" THEN format12(t) \o <<" ">> \o zoneText(t)
    ELSE ColorCyan \o format12(t) \o ColorReset \o <<" ">>
         \o ColorYellow \o zoneText(t) \o ColorReset

time12Callback(mode, match) ==
    CHOOSE r \in {time12Render(mode, match, t) :
                  t \in {parseTime(SubSeq(match, 5, Len(match) - 1))}} : TRUE

time24Render(mode, match, t) ==
    IF ~t.ok THEN match
    ELSE IF mode = "plain" THEN format24(t) \o <<" ">> \o zoneText(t)
    ELSE ColorCyan \o format24(t) \o ColorReset \o <<" ">>
         \o ColorYellow \o zoneText(t) \o ColorReset

time24Callback(mode, match) ==
    CHOOSE r \in {time24Render(mode, match, t) :
                  t \in {parseTime(SubSeq(match, 5, Len(match) - 1))}} : TRUE

----------------------------------------------------------------------------
(* ReplaceAllStringFunc / ReplaceAllString: one left-to-right scan, every   *)
(* non-overlapping match replaced.                                          *)

callback(re, mode, match) ==
    CASE re = "iata" -> airportCallback(mode, 3, match)
      [] re = "icao" -> airportCallback(mode, 4, match)
      [] re = "date" -> dateCallback(mode, match)
      [] re = "time12" -> time12Callback(mode, match)
      [] re = "time24" -> time24Callback(mode, match)
      [] re = "escape" -> <<"LF">>
      [] re = "control" -> <<"LF">>
      [] re = "newlines" -> <<"LF", "LF">>

replaceValue(re, mode, v) ==
    LET f[i \in 1..(Len(v) + 1)] ==
            IF i > Len(v) THEN <<>>
            ELSE CHOOSE r \in
                    {IF n > 0
                     THEN (CHOOSE c \in {callback(re, mode, m) : m \in {SubSeq(v, i, i + n - 1)}} : TRUE)
                          \o f[i + n]
                     ELSE <<v[i]>> \o f[i + 1] : n \in {matchLen(re, v, i)}} : TRUE
    IN  f[1]

ReplaceAll(re, mode, s) == CHOOSE r \in {replaceValue(re, mode, v) : v \in {s}} : TRUE

----------------------------------------------------------------------------
(* The passes. *)

plainProcessAirportCodes(content) ==
    ReplaceAll("icao", "plain", ReplaceAll("iata", "plain", content))

processAirportCodes(content) ==
    ReplaceAll("icao", "highlight", ReplaceAll("iata", "highlight", content))

plainProcessDatesAndTimes(content) ==
    ReplaceAll("time24", "plain",
        ReplaceAll("time12", "plain", ReplaceAll("date", "plain", content)))

processDatesAndTimes(content) ==
    ReplaceAll("time24", "highlight",
        ReplaceAll("time12", "highlight", ReplaceAll("date", "highlight", content)))

trimHorizontalWhitespace(content) ==
    CHOOSE r \in {Join([i \in 1..Len(lines) |-> Join(Fields(lines[i]), <<" ">>)] \o <<>>,
                       <<"LF">>) :
                  lines \in {Split(content)}} : TRUE

trimVerticalWhitespace(content) ==
    ReplaceAll("newlines", "plain",
        ReplaceAll("control", "plain", ReplaceAll("escape", "plain", content)))

plainProcessContent(content) ==
    trimVerticalWhitespace(trimHorizontalWhitespace(
        plainProcessDatesAndTimes(plainProcessAirportCodes(content))))

highlightProcessContent(content) ==
    trimVerticalWhitespace(trimHorizontalWhitespace(
        processDatesAndTimes(processAirportCodes(content))))

----------------------------------------------------------------------------
(* main: the steps after the argument and file checks. *)

\* if err := loadAirportData(airportLookupPath); err != nil { ... }
LoadAirportData ==
    /\ pc = "start"
    /\ LET r == loadAirportData(airportMap, heap, header, rows)
       IN  /\ airportMap' = r.am
           /\ heap' = r.hp
           /\ loadErr' = r.err
    /\ pc' = "loaded"
    /\ UNCHANGED <<header, rows, input, plainOutput, highlightedOutput>>

\* printError("Airport lookup file is malformed"); return
MainLoadFailed ==
    /\ pc = "loaded"
    /\ loadErr # "nil"
    /\ pc' = "exit"
    /\ UNCHANGED <<header, rows, input, airportMap, heap, loadErr, plainOutput,
                   highlightedOutput>>

\* plainOutput := plainProcessContent(string(input))
MainPlain ==
    /\ pc = "loaded"
    /\ loadErr = "nil"
    /\ plainOutput' = plainProcessContent(input)
    /\ pc' = "plain"
    /\ UNCHANGED <<header, rows, input, airportMap, heap, loadErr, highlightedOutput>>

\* highlightedOutput := highlightProcessContent(string(input))
MainHighlight ==
    /\ pc = "plain"
    /\ highlightedOutput' = highlightProcessContent(input)
    /\ pc' = "done"
    /\ UNCHANGED <<header, rows, input, airportMap, heap, loadErr, plainOutput>>

Next == LoadAirportData \/ MainLoadFailed \/ MainPlain \/ MainHighlight

\* the state when main calls loadAirportData, for a lookup file and an input file
InitWith(hdr, recs, text) ==
    /\ pc = "start"
    /\ header = hdr
    /\ rows = recs
    /\ input = text
    /\ airportMap = NilMap
    /\ heap = <<>>
    /\ loadErr = "nil"
    /\ plainOutput = <<>>
    /\ highlightedOutput = <<>>

----------------------------------------------------------------------------
(* The files the model is run on. *)

\* all sequences of at most n elements of S
RECURSIVE SeqsUpTo(_, _)
SeqsUpTo(S, n) ==
    IF n = 0 THEN {<<>>}
    ELSE LET shorter == SeqsUpTo(S, n - 1)
         IN  shorter \cup {Append(q, x) : q \in {r \in shorter : Len(r) = n - 1}, x \in S}

\* the concatenation of a sequence of strings
Concat(parts) == Join(parts, <<>>)

StdHeader == requiredColumns

\* the CSV record of an airport under a header: each required column's field,
\* "x" in any other column
mkRecord(hdr, a) ==
    [i \in 1..Len(hdr) |->
        CHOOSE f \in {CASE k = ColName -> a.name
                        [] k = ColMunicipality -> a.muni
                        [] k = ColIcao -> a.icao
                        [] k = ColIata -> a.iata
                        [] OTHER -> <<"x">> : k \in {headerKey(hdr[i])}} : TRUE] \o <<>>

mkRecords(hdr, as) == [i \in 1..Len(as) |->
    IF as[i].short THEN Tail(mkRecord(hdr, as[i])) ELSE mkRecord(hdr, as[i])]

Row(name, muni, iata, icao) ==
    [name |-> name, muni |-> muni, iata |-> iata, icao |-> icao, short |-> FALSE]

ABC == <<"A", "B", "C">>

ABCD == <<"A", "B", "C", "D">>

WXYZ == <<"W", "X", "Y", "Z">>

KLM == <<"K", "L", "M">>

----------------------------------------------------------------------------
(* Lookup files for the loader: every header of HeaderPool over every table *)
(* of at most MaxRows rows of LoadRows.                                     *)

ToUpperChar(c) ==
    IF \E i \in 1..26 : LowerLetters[i] = c
    THEN UpperLetters[CHOOSE i \in 1..26 : LowerLetters[i] = c]
    ELSE c

\* a header name as a spreadsheet might write it: capitals, blanks around it
Decorated(column) == <<" ">> \o [i \in 1..Len(column) |-> ToUpperChar(column[i])] \o <<"TAB">>

Reverse(q) == [i \in 1..Len(q) |-> q[Len(q) + 1 - i]]

Without(q, i) == SubSeq(q, 1, i - 1) \o SubSeq(q, i + 1, Len(q))

HeaderPool ==
    { StdHeader,
      Reverse(StdHeader),
      [i \in 1..6 |-> Decorated(StdHeader[i])],
      << <<"i", "d">> >> \o StdHeader \o << <<"n", "a", "m", "e">> >>,
      [StdHeader EXCEPT ![1] = <<"n", "a", "m", "e", "s">>] }
    \cup {Without(Reverse(StdHeader), i) : i \in 1..6}

LoadRows ==
    { Row(<<"K">>, <<"P">>, ABC, ABCD),
      Row(<<"L">>, <<"Q">>, ABC, WXYZ),          \* the IATA code of the first
      Row(<<"M">>, <<>>, <<>>, ABCD),            \* the ICAO code of the first
      Row(<<"O">>, <<"R">>, KLM, <<>>),
      Row(<<" ">>, <<"S">>, KLM, <<>>),          \* empty name
      Row(<<"N">>, <<"S">>, <<" ">>, <<>>),      \* no code
      [Row(<<"U">>, <<"V">>, KLM, WXYZ) EXCEPT !.short = TRUE] }

LoadText == <<"#", "A", "B", "C", " ", " ", "#", "#", "A", "B", "C", "D">>

InitLoad ==
    \E h \in HeaderPool, t \in SeqsUpTo(LoadRows, MaxRows) :
        InitWith(h, mkRecords(h, t), LoadText)

SpecLoad == InitLoad /\ [][Next]_vars

----------------------------------------------------------------------------
(* Input files with airport tokens: every text of at most MaxPieces pieces  *)
(* of CodePieces over every directory of DirPool.                           *)

Star == <<"*">>

Hash == <<"#">>

IataTokens == {Hash \o ABC, Star \o Hash \o ABC, Hash \o KLM, Star \o Hash \o KLM}

IcaoTokens == {Hash \o Hash \o ABCD, Star \o Hash \o Hash \o ABCD, Hash \o Hash \o WXYZ}

CtxPieces == {<<" ">>, <<"x">>}

CodePieces == IataTokens \cup IcaoTokens \cup CtxPieces \cup {Hash \o WXYZ}

GoodTable == <<Row(<<"K">>, <<"P">>, ABC, <<>>)>>

BadTable == <<Row(<<" ">>, <<"S">>, KLM, <<>>)>>

DirPool ==
    { GoodTable,
      <<Row(<<"H">>, <<"L">>, <<>>, ABCD)>>,
      <<Row(<<" ", "K">>, <<" ">>, ABC, ABCD)>>,
      <<Row(<<"K", " ", "H">>, <<>>, ABC, WXYZ)>>,
      <<Row(<<"#">>, <<"P", " ">>, ABC, WXYZ)>>,
      <<>>,
      BadTable }

InitCodes ==
    \E t \in DirPool, ps \in SeqsUpTo(CodePieces, MaxPieces) :
        InitWith(StdHeader, mkRecords(StdHeader, t), Concat(ps))

SpecCodes == InitCodes /\ [][Next]_vars

----------------------------------------------------------------------------
(* Input files of blanks, line ends and escapes: every text of at most      *)
(* MaxWs pieces of WsPieces.                                                *)

WsPieces == {<<"a">>, <<" ">>, <<"LF">>, <<"CR">>, <<"BSL", "r">>, <<"BSL", "f">>, <<"VT">>}

InitWs ==
    \/ \E ps \in SeqsUpTo(WsPieces, MaxWs) :
            InitWith(StdHeader, mkRecords(StdHeader, GoodTable), Concat(ps))
    \/ InitWith(StdHeader, mkRecords(StdHeader, BadTable), <<"a">>)

SpecWs == InitWs /\ [][Next]_vars

----------------------------------------------------------------------------
(* Input files with one date or time token, between at most MaxPad          *)
(* characters of text on each side.                                         *)

StampDates ==
    { <<"2","0","2","5","-","0","3","-","1","5">>,
      <<"2","0","2","4","-","0","2","-","2","9">>,
      <<"2","0","2","5","-","0","2","-","2","9">>,      \* no such day
      <<"2","0","2","5","-","1","3","-","0","1">> }     \* no such month

StampHours == {<<"0","0">>, <<"4">>, <<"1","2">>, <<"1","4">>, <<"2","4">>}

StampMinutes == {<<"0","5">>, <<"3","0">>, <<"6","0">>}

StampZones ==
    { <<"Z">>,
      <<"+","0","0",":","0","0">>,
      <<"-","0","0",":","0","0">>,
      <<"-","0","4",":","0","0">>,
      <<"+","0","5",":","3","0">>,
      <<"+","0","5",":","6","0">>,
      <<"+","2","5",":","0","0">>,
      <<":","0","0","Z">>,                              \* seconds
      <<".","5","Z">>,
      <<>> }

Stamp(d, h, m, z) == d \o <<"T">> \o h \o <<":">> \o m \o z

BaseDate == <<"2","0","2","5","-","0","3","-","1","5">>

Stamps ==
    {Stamp(d, h, m, <<"Z">>) : d \in StampDates, h \in StampHours, m \in StampMinutes}
    \cup {Stamp(BaseDate, h, <<"3","0">>, z) : h \in StampHours, z \in StampZones}

StampPrefixes == {<<"D", "(">>, <<"T", "1", "2", "(">>, <<"T", "2", "4", "(">>}

PrePad == <<"x", " ", "LF", "D">>

PostPad == <<" ", "y", "LF", ")">>

InitTime ==
    \/ \E k \in StampPrefixes, ts \in Stamps, i \in 0..MaxPad, j \in 0..MaxPad :
            InitWith(StdHeader, mkRecords(StdHeader, GoodTable),
                     SubSeq(PrePad, 1, i) \o k \o ts \o <<")">> \o SubSeq(PostPad, 1, j))
    \/ InitWith(StdHeader, mkRecords(StdHeader, BadTable), <<"a">>)

SpecTime == InitTime /\ [][Next]_vars

----------------------------------------------------------------------------
(* What the claims say of the loader, stated over the files themselves.    *)

\* some required column is the name of no header column
HeaderLacksRequired ==
    \E r \in 1..6 : \A i \in 1..Len(header) :
        TrimSpace(ToLower(header[i])) # requiredColumns[r]

\* the index of a column in a header that has it: the last of that name
ColumnOf(name) ==
    CHOOSE i \in 1..Len(header) :
        /\ TrimSpace(ToLower(header[i])) = name
        /\ \A j \in (i + 1)..Len(header) : TrimSpace(ToLower(header[j])) # name

IataOf(i) == rows[i][ColumnOf(ColIata)]

IcaoOf(i) == rows[i][ColumnOf(ColIcao)]

NameOf(i) == rows[i][ColumnOf(ColName)]

\* row i is one the loader rejects
WrongFieldCount(i) == Len(rows[i]) # Len(header)

EmptyName(i) == TrimSpace(NameOf(i)) = <<>>

NoCode(i) == TrimSpace(IataOf(i)) = <<>> /\ TrimSpace(IcaoOf(i)) = <<>>

Loaded == pc # "start"

LoadedOk == pc # "start" /\ loadErr = "nil"

HeaderOk == ~HeaderLacksRequired

BothCodes(i) == IataOf(i) # <<>> /\ IcaoOf(i) # <<>>

\* a code of row i is a code of a later row
ReusedLater(i) ==
    \E j \in (i + 1)..Len(rows) :
        {IataOf(i), IcaoOf(i)} \cap {IataOf(j), IcaoOf(j)} # {}

----------------------------------------------------------------------------
(* C4, as claimed: after a successful load, for every row with both codes  *)
(* non-empty, the IATA code and the ICAO code resolve to the same record    *)
(* instance, also in tables where two rows share a code.                    *)
C4_SameInstanceAlways ==
    LoadedOk =>
        \A i \in 1..Len(rows) :
            BothCodes(i) => airportMap.m[IataOf(i)] = airportMap.m[IcaoOf(i)]

(* C4, amended: after a successful load, for every row with both codes     *)
(* non-empty and neither code used again by a later row, the two codes      *)
(* resolve to the same record instance, which holds that row's fields.      *)
C4_SameInstanceUnlessReused ==
    LoadedOk =>
        \A i \in 1..Len(rows) :
            (BothCodes(i) /\ ~ReusedLater(i)) =>
                /\ IataOf(i) \in DOMAIN airportMap.m
                /\ IcaoOf(i) \in DOMAIN airportMap.m
                /\ airportMap.m[IataOf(i)] = airportMap.m[IcaoOf(i)]
                /\ heap[airportMap.m[IataOf(i)]].Name = NameOf(i)
                /\ heap[airportMap.m[IataOf(i)]].IATACode = IataOf(i)
                /\ heap[airportMap.m[IataOf(i)]].ICAOCode = IcaoOf(i)

\* a table of two rows with both codes that share their IATA code was loaded
C4_Witness ==
    /\ pc = "done"
    /\ Len(rows) = 2
    /\ BothCodes(1) /\ BothCodes(2)
    /\ IataOf(1) = IataOf(2)
    /\ IcaoOf(1) # IcaoOf(2)

(* C7, as claimed: if a data row has a wrong field count, an empty trimmed *)
(* name or no code, the load fails, afterwards no code resolves in the      *)
(* directory, and no transformation is run.                                 *)
C7_NoPartialDirectory ==
    (Loaded /\ HeaderOk /\ \E i \in 1..Len(rows) :
                                WrongFieldCount(i) \/ EmptyName(i) \/ NoCode(i)) =>
        /\ loadErr # "nil"
        /\ DOMAIN airportMap.m = {}
        /\ pc \in {"loaded", "exit"}

(* C8: a header that lacks a required column, whatever the order and the   *)
(* spelling of its columns, makes the load fail with the directory left as  *)
(* it was before the call (never made) and no record allocated; main exits. *)
C8_SchemaFailureLeavesDirectory ==
    (Loaded /\ HeaderLacksRequired) =>
        /\ loadErr # "nil"
        /\ airportMap = NilMap
        /\ heap = <<>>
        /\ pc \in {"loaded", "exit"}

\* main has exited on a header without its name column, over a table of rows
C8_Witness ==
    /\ pc = "exit"
    /\ HeaderLacksRequired
    /\ \A i \in 1..Len(header) : TrimSpace(ToLower(header[i])) # ColName
    /\ Len(rows) = MaxRows

----------------------------------------------------------------------------
(* What the claims say of the transformation, stated over the input text.  *)

\* whitespace normalisation: the two steps in the order of the code
Normalize(t) == trimVerticalWhitespace(trimHorizontalWhitespace(t))

\* t without its style markers: every ESC [ digits m removed
StripStyle(t) ==
    LET markerLen(i) ==
            IF t[i] = "ESC" /\ i + 1 <= Len(t) /\ t[i + 1] = "["
            THEN CHOOSE r \in {IF n >= 1 /\ i + 2 + n <= Len(t) /\ t[i + 2 + n] = "m"
                               THEN n + 3 ELSE 0 : n \in {runLen(t, i + 2, DigitSet)}} : TRUE
            ELSE 0
        f[i \in 1..(Len(t) + 1)] ==
            IF i > Len(t) THEN <<>>
            ELSE CHOOSE r \in {IF n > 0 THEN f[i + n] ELSE <<t[i]>> \o f[i + 1] :
                               n \in {markerLen(i)}} : TRUE
    IN  f[1]

Transformed == pc = "done"

\* the input as text, one airport token, text:  pre \o tok \o post
Contexts == CtxPieces \cup {<<>>}

AirportTokenInputs ==
    {c \in [pre : Contexts, tok : IataTokens \cup IcaoTokens, post : Contexts] :
        input = c.pre \o c.tok \o c.post}

HasStar(tok) == tok[1] = "*"

IsIcao(tok) == tok[IF HasStar(tok) THEN 3 ELSE 2] = "#"

CodeOf(tok) == SubSeq(tok, (IF HasStar(tok) THEN 2 ELSE 1) + (IF IsIcao(tok) THEN 2 ELSE 1),
                      Len(tok))

HasNonSpace(t) == \E i \in 1..Len(t) : t[i] \notin {" ", "TAB", "LF", "VT", "FF", "CR"}

(* C1, as claimed: the highlighted output without its style markers is the *)
(* plain output, for every input and directory.                             *)
C1_StrippedHighlightIsPlain ==
    Transformed => StripStyle(highlightedOutput) = plainOutput

(* C2, as claimed: an ICAO token whose code is a key of the directory is   *)
(* replaced as a whole by the airport's name (its city with the star),      *)
(* whatever other codes the directory holds.                                *)
C2_IcaoTokenResolved ==
    Transformed =>
        \A c \in AirportTokenInputs :
            (IsIcao(c.tok) /\ exists(CodeOf(c.tok))) =>
                plainOutput =
                    Normalize(c.pre
                              \o (IF HasStar(c.tok)
                                  THEN (IF lookup(CodeOf(c.tok)).Municipality # <<>>
                                        THEN lookup(CodeOf(c.tok)).Municipality
                                        ELSE lookup(CodeOf(c.tok)).Name)
                                  ELSE lookup(CodeOf(c.tok)).Name)
                              \o c.post)

(* C3, as claimed: an airport token whose code is no key of the directory  *)
(* stays in the output, plain and highlighted, as it was written.           *)
C3_UnknownTokenKept ==
    Transformed =>
        \A c \in AirportTokenInputs :
            ~exists(CodeOf(c.tok)) =>
                /\ plainOutput = Normalize(input)
                /\ highlightedOutput = Normalize(input)
                /\ Contains(plainOutput, c.tok)
                /\ Contains(highlightedOutput, c.tok)

(* C5, as claimed: normalising the whitespace of an already normalised     *)
(* text changes nothing.                                                    *)
C5_NormalizeIdempotent ==
    pc \in {"plain", "done"} => Normalize(plainOutput) = plainOutput

\* the token is resolved against the directory: its code is a key and, for an
\* ICAO token, the IATA pass before it leaves the token as written
Resolved(tok) ==
    /\ exists(CodeOf(tok))
    /\ IsIcao(tok) => ~exists(SubSeq(CodeOf(tok), 1, 3))

RenderedOutputs(c, text, color) ==
    /\ plainOutput = Normalize(c.pre \o text \o c.post)
    /\ highlightedOutput = Normalize(c.pre \o color \o text \o ColorReset \o c.post)

(* C6, as claimed: with the star the rendered text is the municipality     *)
(* whenever it is non-empty, even if it is only whitespace, and the name    *)
(* only when it is the empty string; without the star it is the name.       *)
C6_MunicipalityWhenNonEmpty ==
    Transformed =>
        \A c \in AirportTokenInputs :
            Resolved(c.tok) =>
                IF HasStar(c.tok) /\ lookup(CodeOf(c.tok)).Municipality # <<>>
                THEN RenderedOutputs(c, lookup(CodeOf(c.tok)).Municipality, ColorCyan)
                ELSE RenderedOutputs(c, lookup(CodeOf(c.tok)).Name, ColorGreen)

\* the record's name and municipality hold no token syntax of their own,
\* which a later pass would rewrite
NoTokenSyntax(airport) ==
    \A i \in 1..Len(airport.Name \o airport.Municipality) :
        (airport.Name \o airport.Municipality)[i] \notin {"#", "("}

(* C6, amended: with the star the rendered text is the municipality        *)
(* whenever it holds a character that is not whitespace, and the name when  *)
(* it is empty or only whitespace; without the star it is the name (for a   *)
(* record whose name and municipality hold no token syntax themselves).     *)
C6_MunicipalityWhenNotBlank ==
    Transformed =>
        \A c \in AirportTokenInputs :
            (Resolved(c.tok) /\ NoTokenSyntax(lookup(CodeOf(c.tok)))) =>
                IF HasStar(c.tok) /\ HasNonSpace(lookup(CodeOf(c.tok)).Municipality)
                THEN RenderedOutputs(c, lookup(CodeOf(c.tok)).Municipality, ColorCyan)
                ELSE RenderedOutputs(c, lookup(CodeOf(c.tok)).Name, ColorGreen)

\* a starred token of a record whose municipality is one blank was rendered
C6_Witness ==
    /\ Transformed
    /\ \E c \in AirportTokenInputs :
            /\ HasStar(c.tok) /\ Resolved(c.tok)
            /\ lookup(CodeOf(c.tok)).Municipality = <<" ">>
            /\ plainOutput = TrimSpace(c.pre \o lookup(CodeOf(c.tok)).Name \o c.post)

----------------------------------------------------------------------------
(* Date and time tokens. *)

\* the input as text, one D( / T12( / T24( token, text: the token's prefix,
\* its timestamp of 16 or more characters of [0-9T:.Z+-], and what is around
StampTokenInputs ==
    { [pre |-> SubSeq(input, 1, t[1]), k |-> t[3],
       ts |-> SubSeq(input, t[1] + Len(t[3]) + 1, t[2] - 1),
       post |-> SubSeq(input, t[2] + 1, Len(input))] :
      t \in {u \in (0..Len(input)) \X (1..Len(input)) \X StampPrefixes :
                /\ literalAt(input, u[1] + 1, u[3])
                /\ input[u[2]] = ")"
                /\ u[2] - (u[1] + Len(u[3]) + 1) >= 16
                /\ \A i \in (u[1] + Len(u[3]) + 1)..(u[2] - 1) : input[i] \in TsClass
                /\ \A i \in 1..u[1] : input[i] \notin {"(", ")"}
                /\ \A i \in (u[2] + 1)..Len(input) : input[i] \notin {"(", ")"}} }

\* the timestamp as written: hour and minute around the colon after the T,
\* and what follows the minute
WrittenHour(ts) == SubSeq(ts, 12, (CHOOSE i \in 12..Len(ts) : ts[i] = ":") - 1)

WrittenMinute(ts) == SubSeq(ts, 13 + Len(WrittenHour(ts)), 14 + Len(WrittenHour(ts)))

WrittenZone(ts) == SubSeq(ts, 15 + Len(WrittenHour(ts)), Len(ts))

NumberOf(digits) ==
    IF Len(digits) = 1 THEN digitVal(digits[1])
    ELSE digitVal(digits[1]) * 10 + digitVal(digits[2])

\* the examples of the claim: seconds, a month, day, hour or minute out of range
KnownUnparsable(ts) ==
    \/ SubSeq(ts, 6, 7) = <<"1", "3">>
    \/ SubSeq(ts, 1, 10) = <<"2","0","2","5","-","0","2","-","2","9">>
    \/ WrittenHour(ts) = <<"2", "4">>
    \/ WrittenMinute(ts) = <<"6", "0">>
    \/ WrittenZone(ts) \in {<<":","0","0","Z">>, <<".","5","Z">>, <<>>}

(* C9: a date or time token whose timestamp fits the token grammar and     *)
(* parses under neither layout (seconds, or a month, day, hour or minute    *)
(* out of range) is emitted as written in both modes, the text around it    *)
(* being left as it was (up to the whitespace normalisation).               *)
C9_UnparsableStampKept ==
    Transformed =>
        \A c \in StampTokenInputs :
            /\ KnownUnparsable(c.ts) => ~parseTime(c.ts).ok
            /\ ~parseTime(c.ts).ok =>
                /\ plainOutput = Normalize(input)
                /\ highlightedOutput = Normalize(input)
                /\ Contains(plainOutput, c.k \o c.ts \o <<")">>)
                /\ Contains(highlightedOutput, c.k \o c.ts \o <<")">>)

\* a T12 token with seconds, between text, went through both modes
C9_Witness ==
    /\ Transformed
    /\ \E c \in StampTokenInputs :
            /\ c.k = <<"T", "1", "2", "(">>
            /\ WrittenZone(c.ts) = <<":","0","0","Z">>
            /\ c.pre # <<>> /\ c.post # <<>>
            /\ Contains(plainOutput, c.k \o c.ts \o <<")">>)

\* the clock reading as written, in 12-hour or 24-hour form
WrittenClock(k, ts) ==
    LET h == NumberOf(WrittenHour(ts))
    IN  IF k = <<"T", "1", "2", "(">>
        THEN pad2(IF h % 12 = 0 THEN 12 ELSE h % 12) \o <<":">> \o WrittenMinute(ts)
             \o (IF h >= 12 THEN <<"P", "M">> ELSE <<"A", "M">>)
        ELSE pad2(h) \o <<":">> \o WrittenMinute(ts)

\* the offset as written, Z being +00:00
WrittenOffset(ts) ==
    IF WrittenZone(ts) = <<"Z">> THEN <<"+","0","0",":","0","0">> ELSE WrittenZone(ts)

\* the offset as a value: -00:00 is +00:00, sixty minutes are one hour more
OffsetValueText(ts) ==
    LET z == WrittenOffset(ts)
    IN  IF z = <<"-","0","0",":","0","0">> THEN <<"+","0","0",":","0","0">>
        ELSE IF SubSeq(z, 5, 6) = <<"6", "0">>
             THEN <<z[1]>> \o pad2(NumberOf(SubSeq(z, 2, 3)) + 1) \o <<":", "0", "0">>
        ELSE z

IsTimeToken(c) == c.k # <<"D", "(">>

(* C10, as claimed: a parsable T12 or T24 token renders in plain mode as   *)
(* the written hour and minute, one space, and the written offset in        *)
(* parentheses, Z being (+00:00).                                           *)
C10_ClockAndWrittenOffset ==
    Transformed =>
        \A c \in StampTokenInputs :
            (IsTimeToken(c) /\ parseTime(c.ts).ok) =>
                plainOutput =
                    Normalize(c.pre \o WrittenClock(c.k, c.ts) \o <<" ", "(">>
                              \o WrittenOffset(c.ts) \o <<")">> \o c.post)

(* C10, amended: ... one space, and the value of the written offset in     *)
(* parentheses as sign, hours, minutes: the offset as written, except that  *)
(* Z and -00:00 are (+00:00) and sixty minutes are carried into the hours.  *)
C10_ClockAndOffsetValue ==
    Transformed =>
        \A c \in StampTokenInputs :
            (IsTimeToken(c) /\ parseTime(c.ts).ok) =>
                plainOutput =
                    Normalize(c.pre \o WrittenClock(c.k, c.ts) \o <<" ", "(">>
                              \o OffsetValueText(c.ts) \o <<")">> \o c.post)

\* a T24 token written with the offset -00:00 was rendered
C10_Witness ==
    /\ Transformed
    /\ \E c \in StampTokenInputs :
            /\ c.k = <<"T", "2", "4", "(">>
            /\ WrittenZone(c.ts) = <<"-","0","0",":","0","0">>
            /\ WrittenHour(c.ts) = <<"1", "4">>
            /\ plainOutput = c.pre \o <<"1","4",":","3","0"," ","(","+","0","0",":","0","0",")">>

----------------------------------------------------------------------------
(* Control characters and blank lines. *)

ControlChars == {"CR", "VT", "FF"}

\* t with every run of carriage returns, vertical tabs and form feeds
\* turned into one newline
ControlRunsToNewline(t) ==
    LET f[i \in 1..(Len(t) + 1)] ==
            IF i > Len(t) THEN <<>>
            ELSE IF t[i] \in ControlChars
                 THEN IF i > 1 /\ t[i - 1] \in ControlChars THEN f[i + 1]
                      ELSE <<"LF">> \o f[i + 1]
            ELSE <<t[i]>> \o f[i + 1]
    IN  f[1]

\* the input is words and control characters only, with a control character
OnlyWordsAndControls ==
    /\ \A i \in 1..Len(input) : input[i] \in ControlChars \cup {"a"}
    /\ \E i \in 1..Len(input) : input[i] \in ControlChars

(* C11, as claimed: in the output every run of carriage-return,            *)
(* vertical-tab or form-feed characters of the input has become one         *)
(* newline: a CR b gives a LF b.                                            *)
C11_ControlRunsBecomeNewline ==
    Transformed =>
        (OnlyWordsAndControls =>
            /\ plainOutput = ControlRunsToNewline(input)
            /\ highlightedOutput = ControlRunsToNewline(input))

\* three newlines in a row somewhere in t
HasThreeNewlines(t) ==
    \E i \in 1..(Len(t) - 2) : t[i] = "LF" /\ t[i + 1] = "LF" /\ t[i + 2] = "LF"

====
